---------------------------- MODULE Spec2Model ----------------------------
(***************************************************************************)
(* A model of the request engine of the WooCommerce SDK: the request       *)
(* executor of BaseClient, the client's construction and authentication,   *)
(* the backoff retrier of the utilities, and the pagination and batch      *)
(* helpers of ProductsClient / OrdersClient.                               *)
(*                                                                         *)
(* Each component is an asynchronous function; the model gives it a        *)
(* program counter and one action per step between two awaits.  The        *)
(* components are checked under five specifications (SpecRetry, SpecPage,  *)
(* SpecBatch, SpecRequest, SpecClient) that share the module's variables:  *)
(* the components a specification does not run stay in their idle state.   *)
(***************************************************************************)
EXTENDS Integers, Sequences, FiniteSets, TLC

VARIABLES
  \* ---- retryWithBackoff(fn, maxRetries, baseDelay)
  rPc,          \* "idle" | "loop" | "call" | "sleep" | "returned" | "thrown"
  maxRetries,   \* parameter, after defaulting
  baseDelay,    \* parameter, after defaulting
  attempt,      \* loop variable
  lastError,    \* local lastError
  rResult,      \* value the promise settled with
  rTrace,       \* observable events: calls of fn, their outcomes, sleeps
  nextInst,     \* allocation counter: identity of the next object created
  \* ---- getAll(status, perPage) / listAll(params)
  pPc,          \* "idle" | "loop" | "list" | "returned" | "thrown"
  pHelper,      \* which helper runs
  perPage,      \* page size, after defaulting
  page,         \* local page
  hasMore,      \* local hasMore
  allProducts,  \* local accumulator
  pResult,      \* value the promise settled with
  pRejected,    \* what the awaited list call rejected with, if it did
  pTrace,       \* observable events: list requests and their responses
  \* ---- batchUpdate(updates)
  bPc,          \* "idle" | "start" | "loop" | "post" | "delay" | "returned" | "thrown"
  updates,      \* parameter
  envDelay,     \* process.env.WOOCOMMERCE_RATE_LIMIT_DELAY_MS
  batches,      \* local batches
  bI,           \* loop variable i of the submission loop
  allResults,   \* local accumulator
  bResult,      \* value the promise settled with
  bRejected,    \* what the awaited post rejected with, if it did
  bTrace,       \* observable events: posts, their responses, delays
  \* ---- BaseClient.request(endpoint, options)
  qPc,          \* "idle" | "fetch" | "errBody" | "body" | "returned" | "thrown"
  timeout,      \* this.timeout
  timer,        \* the timeoutId timer: "none" | "armed" | "cleared" | "fired"
  aborted,      \* controller.signal.aborted
  clock,        \* milliseconds since the timer was created
  response,     \* the Response fetch resolved with (status 0: none yet)
  qError,       \* the catch clause's parameter error
  qResult,      \* value the promise settled with
  jsonCalls,    \* number of calls of response.json() so far
  \* ---- BaseClient: construction and the dispatch of requests
  config,       \* the constructor's argument
  baseUrl,      \* this.baseUrl
  queryStringAuth,  \* this.queryStringAuth
  oauth,        \* this.oauth: Null, or the signer
  signings,     \* number of calls of oauth.authorize so far
  dispatched,   \* the calls of fetch so far: url, method, headers
  inflight,     \* calls of request() running at once: one record per call
  \* ---- the utility functions buildQueryString and normalizeUrl
  uFn,          \* the function called
  uArg,         \* its argument
  uOut,         \* what it returned
  uAgain        \* what it returned when called on uOut

rvars == <<rPc, maxRetries, baseDelay, attempt, lastError, rResult, rTrace, nextInst>>

pvars == <<pPc, pHelper, perPage, page, hasMore, allProducts, pResult, pRejected, pTrace>>

bvars == <<bPc, updates, envDelay, batches, bI, allResults, bResult, bRejected, bTrace>>

qvars == <<qPc, timeout, timer, aborted, clock, response, qError, qResult, jsonCalls>>

cvars == <<config, baseUrl, queryStringAuth, oauth, signings, dispatched, inflight>>

uvars == <<uFn, uArg, uOut, uAgain>>

vars == <<rvars, pvars, bvars, qvars, cvars, uvars>>

-----------------------------------------------------------------------------
(* Bounds of the model *)

\* largest explicit maxRetries argument tried
MaxRetriesArg == 2
\* largest explicit page size tried
MaxPerPageArg == 2
\* page lengths the server answers with: 0..MaxShortLen, and the lengths
\* around the requested page size
MaxShortLen == 1
\* the server is asked for at most this many pages
MaxPages == 3
\* longest list of updates handed to batchUpdate
MaxUpdates == 250
\* the clock is followed millisecond by millisecond up to MaxEarly, and from
\* the timer's deadline to MaxOverrun milliseconds past it
MaxEarly == 1
MaxOverrun == 2
\* a client dispatches at most this many requests
MaxRequests == 2
\* at most this many calls of request() run at once
MaxInflight == 2
\* longest parameter mapping handed to buildQueryString
MaxParams == 2
\* most trailing slashes of a URL handed to normalizeUrl
MaxSlashes == 2

-----------------------------------------------------------------------------
(* JavaScript values *)

Undefined == [t |-> "undefined"]

Null == [t |-> "null"]

Str(s) == [t |-> "string", v |-> s]

\* an Error object: its class name, its message, the fields the SDK's
\* subclasses add (undefined on the others), and inst, the object's identity
MkError(name, message, statusCode, resp, retryAfter, originalError, inst) ==
  [t |-> "Error", name |-> name, message |-> message, statusCode |-> statusCode,
   response |-> resp, retryAfter |-> retryAfter, originalError |-> originalError,
   inst |-> inst]

\* new Error(message)
ErrorObj(message, inst) ==
  MkError("Error", message, Undefined, Undefined, Undefined, Undefined, inst)

IsErrorInstance(v) == v.t = "Error"

\* String(value)
StringOf(v) ==
  CASE v.t = "string" -> v.v
    [] v.t = "undefined" -> "undefined"
    [] v.t = "Error" -> v.name \o ": " \o v.message
    [] v.t = "null" -> "null"

Num(n) == [t |-> "number", v |-> n]

NaN == [t |-> "NaN"]

\* an instance of one of the SDK's error classes with a status code
WooError(name, message, statusCode, inst) ==
  MkError(name, message, Num(statusCode), Undefined, Undefined, Undefined, inst)

\* the classes of the SDK's errors: WooCommerceError and its subclasses
WooErrorNames ==
  {"WooCommerceError", "WooCommerceAuthenticationError", "WooCommerceAuthorizationError",
   "WooCommerceNotFoundError", "WooCommerceValidationError", "WooCommerceRateLimitError",
   "WooCommerceNetworkError", "WooCommerceAPIError"}

\* error instanceof WooCommerceError
IsWooError(v) == v.t = "Error" /\ v.name \in WooErrorNames

UpperCase == <<"A", "B", "C", "D", "E", "F", "G", "H", "I", "J", "K", "L", "M",
               "N", "O", "P", "Q", "R", "S", "T", "U", "V", "W", "X", "Y", "Z">>
LowerCase == <<"a", "b", "c", "d", "e", "f", "g", "h", "i", "j", "k", "l", "m",
               "n", "o", "p", "q", "r", "s", "t", "u", "v", "w", "x", "y", "z">>

LowerChar(c) ==
  IF \E k \in 1..26 : UpperCase[k] = c
    THEN LowerCase[CHOOSE k \in 1..26 : UpperCase[k] = c]
    ELSE c

RECURSIVE ToLowerCase(_)
\* String.prototype.toLowerCase
ToLowerCase(s) ==
  IF Len(s) = 0 THEN "" ELSE LowerChar(SubSeq(s, 1, 1)) \o ToLowerCase(SubSeq(s, 2, Len(s)))

\* String.prototype.includes
Includes(s, needle) ==
  \E k \in 1..(Len(s) - Len(needle) + 1) : SubSeq(s, k, k + Len(needle) - 1) = needle

\* a parameter with a default value: the default replaces undefined
DefaultParam(arg, dflt) == IF arg = Undefined THEN dflt ELSE arg.v

Min(a, b) == IF a <= b THEN a ELSE b

\* faulty variant: the end index is taken as inclusive
SliceInclusive(seq, a, b) == SubSeq(seq, a + 1, Min(b + 1, Len(seq)))

\* Array.prototype.slice(a, b) for 0 <= a <= b: elements a .. b-1 (0-based),
\* clamped to the array's length
Slice(seq, a, b) == SubSeq(seq, a + 1, Min(b, Len(seq)))

Digits == <<"0", "1", "2", "3", "4", "5", "6", "7", "8", "9">>

IsDigit(c) == \E d \in 1..10 : Digits[d] = c

DigitValue(c) == (CHOOSE d \in 1..10 : Digits[d] = c) - 1

IsWhiteSpace(c) == c \in {" ", "\t", "\n"}

RECURSIVE SkipWhiteSpace(_)
SkipWhiteSpace(s) ==
  IF Len(s) > 0 /\ IsWhiteSpace(SubSeq(s, 1, 1)) THEN SkipWhiteSpace(SubSeq(s, 2, Len(s))) ELSE s

RECURSIVE ParseDigits(_, _, _)
\* the value of the longest prefix of digits of s, NaN when it is empty
ParseDigits(s, acc, seen) ==
  IF Len(s) > 0 /\ IsDigit(SubSeq(s, 1, 1))
    THEN ParseDigits(SubSeq(s, 2, Len(s)), 10 * acc + DigitValue(SubSeq(s, 1, 1)), TRUE)
    ELSE IF seen THEN Num(acc) ELSE NaN

\* parseInt(s, 10): leading white space, an optional sign, then digits up to
\* the first character that is not one
ParseInt(s) ==
  LET body == SkipWhiteSpace(s)
      sign == IF Len(body) > 0 THEN SubSeq(body, 1, 1) ELSE ""
      rest == IF sign \in {"+", "-"} THEN SubSeq(body, 2, Len(body)) ELSE body
      mag == ParseDigits(rest, 0, FALSE)
  IN IF mag = NaN THEN NaN ELSE IF sign = "-" THEN Num(0 - mag.v) ELSE mag

RECURSIVE Pow2(_)
\* Math.pow(2, k) for the non-negative integers the loop passes
Pow2(k) == IF k <= 0 THEN 1 ELSE 2 * Pow2(k - 1)

-----------------------------------------------------------------------------
(* BaseClient.request: dispatch, timeout, classification of failures *)

\* default of this.timeout, in milliseconds
DefaultTimeout == 30000

\* config.timeout as the caller gives it
TimeoutConfigs == {Undefined, Num(0), Num(2)}

\* this.timeout = config.timeout || 30000
TimeoutOf(cfg) == IF cfg = Undefined \/ cfg.v = 0 THEN DefaultTimeout ELSE cfg.v

\* status codes a server answers with
Statuses == {200, 201, 204, 302, 400, 401, 403, 404, 409, 422, 429, 500, 503, 511}

StatusTexts == {"", "Not Found", "Network Authentication Required"}

\* values of the Retry-After header; Undefined: the header is absent
RetryAfterHeaders ==
  {Undefined, Str(""), Str("60"), Str("soon"), Str("Wed, 21 Oct 2026 07:28:00 GMT")}

Responses ==
  [status : Statuses, statusText : StatusTexts, retryAfter : RetryAfterHeaders]

NoResponse == [status |-> 0, statusText |-> "", retryAfter |-> Undefined]

\* response.ok
Ok(status) == status \in 200..299

\* the message field of a JSON error body: absent, empty, or a text
BodyMessages ==
  {Undefined, Str(""), Str("Invalid credentials"), Str("Failed to fetch product"),
   Str("Network unreachable")}

\* a body that decodes as JSON, as the object it decodes to
JsonBody(message) == [t |-> "object", message |-> message]

\* what response.json() does on an error response: resolve with the decoded
\* body, or reject because the body is not JSON (errorData stays undefined)
ErrorDatas == {Undefined} \cup {JsonBody(m) : m \in BodyMessages}

\* what fetch rejects with when the transport fails
TransportErrors(inst) ==
  { MkError("TypeError", "fetch failed", Undefined, Undefined, Undefined, Undefined, inst),
    MkError("Error", "Network request failed", Undefined, Undefined, Undefined, Undefined, inst),
    MkError("Error", "connect ECONNREFUSED 127.0.0.1:443", Undefined, Undefined, Undefined, Undefined, inst),
    MkError("Error", "getaddrinfo ENOTFOUND store.example", Undefined, Undefined, Undefined, Undefined, inst),
    Str("boom") }

\* what response.json() rejects with on a success response
BodyErrors(inst) ==
  { MkError("SyntaxError", "Unexpected token < in JSON at position 0",
            Undefined, Undefined, Undefined, Undefined, inst),
    MkError("SyntaxError", "Unexpected token 'N', \"Network er\"... is not valid JSON",
            Undefined, Undefined, Undefined, Undefined, inst),
    Str("stream closed"),
    MkError("TypeError", "terminated", Undefined, Undefined, Undefined, Undefined, inst) }

\* what fetch rejects with once controller.abort() was called
AbortError(inst) ==
  MkError("AbortError", "This operation was aborted", Undefined, Undefined, Undefined, Undefined, inst)

\* a value is truthy: neither undefined nor the empty string
Truthy(v) == v # Undefined /\ v # Str("")

\* errorData?.message || response.statusText || 'Request failed'
ErrorMessage(errorData, statusText) ==
  IF errorData # Undefined /\ Truthy(errorData.message)
    THEN errorData.message.v
    ELSE IF statusText # "" THEN statusText ELSE "Request failed"

\* retryAfter ? parseInt(retryAfter, 10) : undefined
RetryAfterOf(header) == IF Truthy(header) THEN ParseInt(header.v) ELSE Undefined

\* the switch of handleErrorResponse: the error thrown for a response
Classify(resp, errorData, inst) ==
  LET message == ErrorMessage(errorData, resp.statusText)
      mk(name, retryAfter) ==
        MkError(name, message, Num(resp.status), errorData, retryAfter, Undefined, inst)
  IN CASE resp.status = 401 -> mk("WooCommerceAuthenticationError", Undefined)
       [] resp.status = 403 -> mk("WooCommerceAuthorizationError", Undefined)
       [] resp.status = 404 -> mk("WooCommerceNotFoundError", Undefined)
       [] resp.status \in {400, 422} -> mk("WooCommerceValidationError", Undefined)
       [] resp.status = 429 ->
            mk("WooCommerceRateLimitError", RetryAfterOf(resp.retryAfter))
       [] OTHER -> IF resp.status >= 500
                     THEN mk("WooCommerceAPIError", Undefined)
                     ELSE mk("WooCommerceError", Undefined)

\* new WooCommerceNetworkError(message, originalError)
NetworkError(message, originalError, inst) ==
  MkError("WooCommerceNetworkError", message, Undefined, Undefined, Undefined,
          originalError, inst)

\* the message tests of the catch clause, on the lower-cased message
IsNetworkMessage(normalizedMessage) ==
  \/ Includes(normalizedMessage, "fetch")
  \/ Includes(normalizedMessage, "network")
  \/ Includes(normalizedMessage, "econnrefused")

\* the catch clause of request: what it throws for the error it caught
CatchRethrow(error, inst) ==
  IF IsErrorInstance(error) /\ error.name = "AbortError"
    THEN NetworkError("Request timeout", error, inst)
  ELSE IF IsErrorInstance(error) /\ IsNetworkMessage(ToLowerCase(error.message))
    THEN NetworkError("Network request failed", error, inst)
  ELSE IF IsWooError(error)
    THEN error
  ELSE MkError("WooCommerceError",
               IF IsErrorInstance(error) THEN error.message ELSE "Unknown error occurred",
               Undefined, Undefined, Undefined, Undefined, inst)

ReqIdle ==
  /\ qPc = "idle" /\ timeout = 0 /\ timer = "none" /\ aborted = FALSE /\ clock = 0
  /\ response = NoResponse /\ qError = Undefined /\ qResult = Undefined
  /\ jsonCalls = 0

\* request() up to its first await: the timer is armed, fetch is in flight
ReqInit ==
  /\ qPc = "fetch"
  /\ \E cfg \in TimeoutConfigs : timeout = TimeoutOf(cfg)
  /\ timer = "armed"
  /\ aborted = FALSE
  /\ clock = 0
  /\ response = NoResponse
  /\ qError = Undefined
  /\ qResult = Undefined
  /\ jsonCalls = 0

\* faulty variant: a 204 response is decoded like any other
IsNoContentNever(status) == FALSE

\* response.status === 204
IsNoContent(status) == status = 204

\* faulty variant: the timer is left armed
ClearTimeoutNoop(tm) == tm

\* clearTimeout(timeoutId)
ClearTimeout(tm) == IF tm = "armed" THEN "cleared" ELSE tm

\* time passes while the call awaits; an armed timer fires at its deadline,
\* and an abort is delivered before more time passes
ReqTick ==
  /\ qPc \in {"fetch", "errBody", "body"}
  /\ ~(qPc = "fetch" /\ aborted)
  /\ \E t \in {clock + 1, timeout} :
       /\ t > clock
       /\ t <= MaxEarly \/ t >= timeout
       /\ t <= timeout + MaxOverrun
       /\ timer = "armed" => t <= timeout
       /\ clock' = t
  /\ UNCHANGED <<qPc, timeout, timer, aborted, response, qError, qResult, jsonCalls>>

\* the timer's callback: controller.abort()
ReqTimerFires ==
  /\ timer = "armed"
  /\ clock = timeout
  /\ timer' = "fired"
  /\ aborted' = TRUE
  /\ UNCHANGED <<qPc, timeout, clock, response, qError, qResult, jsonCalls>>

\* the catch clause: clearTimeout, then throw
ReqCatch(error) ==
  /\ timer' = ClearTimeout(timer)
  /\ qError' = error
  /\ qResult' = CatchRethrow(error, nextInst + 1)
  /\ qPc' = "thrown"

\* fetch rejects because the signal was aborted
ReqFetchAborted ==
  /\ qPc = "fetch"
  /\ aborted
  /\ ReqCatch(AbortError(nextInst))
  /\ UNCHANGED <<timeout, aborted, clock, response, jsonCalls>>

\* fetch rejects: the transport failed
ReqFetchRejects ==
  /\ qPc = "fetch"
  /\ ~aborted
  /\ \E error \in TransportErrors(nextInst) : ReqCatch(error)
  /\ UNCHANGED <<timeout, aborted, clock, response, jsonCalls>>

\* fetch resolves with a response: clearTimeout, then the three branches
ReqFetchResolves ==
  /\ qPc = "fetch"
  /\ ~aborted
  /\ \E resp \in Responses :
       /\ response' = resp
       /\ IF ~Ok(resp.status)
            THEN qPc' = "errBody" /\ UNCHANGED qResult
            ELSE IF IsNoContent(resp.status)
              THEN qPc' = "returned" /\ qResult' = [t |-> "object", message |-> Undefined]
              ELSE qPc' = "body" /\ UNCHANGED qResult
  /\ timer' = ClearTimeout(timer)
  /\ UNCHANGED <<timeout, aborted, clock, qError, jsonCalls>>

\* handleErrorResponse: the body is read (or is not JSON), the error is
\* thrown, and the catch clause of request handles it
ReqErrorResponse ==
  /\ qPc = "errBody"
  /\ \E errorData \in ErrorDatas : ReqCatch(Classify(response, errorData, nextInst))
  /\ jsonCalls' = jsonCalls + 1
  /\ UNCHANGED <<timeout, aborted, clock, response>>

\* response.json() resolves: return data
ReqBodyResolves ==
  /\ qPc = "body"
  /\ qPc' = "returned"
  /\ qResult' = JsonBody(Str("data"))
  /\ jsonCalls' = jsonCalls + 1
  /\ UNCHANGED <<timeout, timer, aborted, clock, response, qError>>

\* response.json() rejects
ReqBodyRejects ==
  /\ qPc = "body"
  /\ \E error \in BodyErrors(nextInst) : ReqCatch(error)
  /\ jsonCalls' = jsonCalls + 1
  /\ UNCHANGED <<timeout, aborted, clock, response>>

-----------------------------------------------------------------------------
(* getAll / listAll: automatic pagination *)

\* default page size of getAll and listAll
DefaultPerPage == 100

PageHelpers == {"products.getAll", "products.listAll", "orders.getAll"}

\* the page size a caller passes; Undefined selects the default
PerPageArgs == {Undefined} \cup {[t |-> "number", v |-> n] : n \in 0..MaxPerPageArg}

\* getAll: perPage = 100 (default parameter); listAll: params?.per_page ?? 100
PerPageOf(helper, arg) == DefaultParam(arg, DefaultPerPage)

\* the lengths of the page the server may answer with
PageLens(pp) == {n \in 0..(pp + 1) : n <= MaxShortLen \/ n >= pp - 1}

\* the items of page p when it holds n items
PageItems(p, n) == [k \in 1..n |-> [page |-> p, idx |-> k]]

\* errors a list call may reject with
ListErrors(inst) ==
  { WooError("WooCommerceNotFoundError", "Not Found", 404, inst),
    WooError("WooCommerceAPIError", "Internal Server Error", 500, inst) }

\* faulty variant: the helper catches the error and throws a base-kind one
PropagatedWrapped(err) ==
  MkError("WooCommerceError", err.message, Undefined, Undefined, Undefined, Undefined,
          err.inst + 1)

\* an await without a try around it: the rejection leaves the helper as it is
Propagated(err) == err

PageIdle ==
  /\ pPc = "idle" /\ pHelper = "none" /\ perPage = 0 /\ page = 0
  /\ hasMore = FALSE /\ allProducts = <<>> /\ pResult = Undefined /\ pTrace = <<>>
  /\ pRejected = Undefined

\* entry: allProducts = [], page = 1, hasMore = true
PageInit ==
  /\ pPc = "loop"
  /\ pHelper \in PageHelpers
  /\ \E a \in PerPageArgs : perPage = PerPageOf(pHelper, a)
  /\ page = 1
  /\ hasMore = TRUE
  /\ allProducts = <<>>
  /\ pResult = Undefined
  /\ pRejected = Undefined
  /\ pTrace = <<>>

\* faulty variant: a full page ends the loop too
IsShortPageOrFull(len, pp) == len <= pp

\* products.length < perPage
IsShortPage(len, pp) == len < pp

\* faulty variant: the page number is not advanced
NextPageSame(p) == p

\* page++
NextPage(p) == p + 1

\* while (hasMore): await this.list({ ..., per_page: perPage, page })
PageList ==
  /\ pPc = "loop"
  /\ hasMore
  /\ page <= MaxPages
  /\ pPc' = "list"
  /\ pTrace' = Append(pTrace, [e |-> "request", page |-> page, per_page |-> perPage])
  /\ UNCHANGED <<pHelper, perPage, page, hasMore, allProducts, pResult, pRejected>>

\* the list call resolves with a page: push, then test for a short page
PageListResolves ==
  /\ pPc = "list"
  /\ \E n \in PageLens(perPage) :
       LET products == PageItems(page, n) IN
       /\ allProducts' = allProducts \o products
       /\ pTrace' = Append(pTrace, [e |-> "response", page |-> page, items |-> products])
       /\ IF IsShortPage(Len(products), perPage)
            THEN hasMore' = FALSE /\ UNCHANGED page
            ELSE page' = NextPage(page) /\ UNCHANGED hasMore
  /\ pPc' = "loop"
  /\ UNCHANGED <<pHelper, perPage, pResult, pRejected>>

\* the list call rejects: the await throws out of the helper
PageListRejects ==
  /\ pPc = "list"
  /\ \E err \in ListErrors(nextInst) : pRejected' = err /\ pResult' = Propagated(err)
  /\ pPc' = "thrown"
  /\ UNCHANGED <<pHelper, perPage, page, hasMore, allProducts, pTrace>>

\* loop left: return allProducts
PageReturn ==
  /\ pPc = "loop"
  /\ ~hasMore
  /\ pPc' = "returned"
  /\ pResult' = allProducts
  /\ UNCHANGED <<pHelper, perPage, page, hasMore, allProducts, pRejected, pTrace>>

-----------------------------------------------------------------------------
(* batchUpdate: chunked, paced submission *)

\* WooCommerce batch API accepts max 100 items
BATCH_SIZE == 100

\* the update list of n items the caller passes
UpdatesOf(n) == [k \in 1..n |-> [id |-> k, stock_quantity |-> k % 3]]

\* values of the environment variable: unset, empty, numeric, not numeric
EnvDelays == {Undefined, Str(""), Str("250"), Str("fast")}

\* parseInt(process.env.WOOCOMMERCE_RATE_LIMIT_DELAY_MS || '100', 10)
DelayMs(env) ==
  ParseInt(IF env = Undefined \/ env = Str("") THEN "100" ELSE env.v)

\* updates.slice(i, i + BATCH_SIZE)
ChunkAt(seq, i, size) == Slice(seq, i, i + size)

RECURSIVE ChunksFrom(_, _, _)
\* for (let i = 0; i < updates.length; i += BATCH_SIZE) batches.push(slice)
ChunksFrom(seq, i, size) ==
  IF i < Len(seq)
    THEN <<ChunkAt(seq, i, size)>> \o ChunksFrom(seq, i + size, size)
    ELSE <<>>

\* the body posted for one chunk
BatchRequest(batch) ==
  [update |-> [k \in 1..Len(batch) |->
     [id |-> batch[k].id, stock_quantity |-> batch[k].stock_quantity, manage_stock |-> TRUE]]]

\* what the server may answer to a posted chunk: a body with the updated
\* products, or a body without an update list (hasUpdate tells them apart)
BatchResponses(req) ==
  { [hasUpdate |-> TRUE, update |-> [k \in 1..Len(req.update) |-> [id |-> req.update[k].id]]],
    [hasUpdate |-> TRUE, update |-> <<[id |-> req.update[1].id]>>],
    [hasUpdate |-> FALSE, update |-> <<>>] }

\* faulty variant: the chunk's results are put in front of the earlier ones
CollectFront(results, chunkResponse) ==
  IF chunkResponse.hasUpdate THEN chunkResponse.update \o results ELSE results

\* if (response.update) allResults.push(...response.update)
Collect(results, chunkResponse) ==
  IF chunkResponse.hasUpdate THEN results \o chunkResponse.update ELSE results

\* faulty variant: the empty-list return gives no result object
EmptyBatchResultNone == Undefined

\* return { update: [] }
EmptyBatchResult == [update |-> <<>>]

\* faulty variant: a delay after every chunk, the last one too
DelayCondAlways(i, len) == i < len

\* i < batches.length - 1
DelayCond(i, len) == i < len - 1

BatchIdle ==
  /\ bPc = "idle" /\ updates = <<>> /\ envDelay = Undefined /\ batches = <<>>
  /\ bI = 0 /\ allResults = <<>> /\ bResult = Undefined /\ bTrace = <<>>
  /\ bRejected = Undefined

\* the call, before its first statement
BatchInit ==
  /\ bPc = "start"
  /\ \E n \in 0..MaxUpdates : updates = UpdatesOf(n)
  /\ envDelay \in EnvDelays
  /\ batches = <<>>
  /\ bI = 0
  /\ allResults = <<>>
  /\ bResult = Undefined
  /\ bRejected = Undefined
  /\ bTrace = <<>>

\* the empty-list return, else the chunking loop and the loop's i = 0
BatchStart ==
  /\ bPc = "start"
  /\ IF Len(updates) = 0
       THEN /\ bPc' = "returned"
            /\ bResult' = EmptyBatchResult
            /\ UNCHANGED batches
       ELSE /\ bPc' = "loop"
            /\ batches' = ChunksFrom(updates, 0, BATCH_SIZE)
            /\ UNCHANGED bResult
  /\ UNCHANGED <<updates, envDelay, bI, allResults, bRejected, bTrace>>

\* loop head, i < batches.length: post the chunk
BatchPost ==
  /\ bPc = "loop"
  /\ bI < Len(batches)
  /\ bPc' = "post"
  /\ bTrace' = Append(bTrace, [e |-> "post", chunk |-> bI, body |-> BatchRequest(batches[bI + 1])])
  /\ UNCHANGED <<updates, envDelay, batches, bI, allResults, bResult, bRejected>>

\* the post resolves: collect, then wait unless this was the last chunk
BatchPostResolves ==
  /\ bPc = "post"
  /\ \E chunkResponse \in BatchResponses(BatchRequest(batches[bI + 1])) :
       /\ allResults' = Collect(allResults, chunkResponse)
       /\ IF DelayCond(bI, Len(batches))
            THEN /\ bPc' = "delay"
                 /\ bTrace' = bTrace \o <<[e |-> "response", chunk |-> bI, body |-> chunkResponse],
                                         [e |-> "delay", ms |-> DelayMs(envDelay)]>>
                 /\ UNCHANGED bI
            ELSE /\ bPc' = "loop"
                 /\ bTrace' = Append(bTrace, [e |-> "response", chunk |-> bI, body |-> chunkResponse])
                 /\ bI' = bI + 1
  /\ UNCHANGED <<updates, envDelay, batches, bResult, bRejected>>

\* faulty variant: the rejection is swallowed and the loop goes on with the
\* next chunk
BatchPostRejectsContinue ==
  /\ bPc = "post"
  /\ \E err \in ListErrors(nextInst) : bRejected' = err
  /\ bPc' = "loop"
  /\ bI' = bI + 1
  /\ UNCHANGED <<updates, envDelay, batches, allResults, bResult, bTrace>>

\* the post rejects: the await throws out of batchUpdate
BatchPostRejects ==
  /\ bPc = "post"
  /\ \E err \in ListErrors(nextInst) : bRejected' = err /\ bResult' = Propagated(err)
  /\ bPc' = "thrown"
  /\ UNCHANGED <<updates, envDelay, batches, bI, allResults, bTrace>>

\* the delay's timer fires: next chunk
BatchDelayDone ==
  /\ bPc = "delay"
  /\ bPc' = "loop"
  /\ bI' = bI + 1
  /\ bTrace' = Append(bTrace, [e |-> "delayed"])
  /\ UNCHANGED <<updates, envDelay, batches, allResults, bResult, bRejected>>

\* loop left: return { update: allResults }
BatchReturn ==
  /\ bPc = "loop"
  /\ ~(bI < Len(batches))
  /\ bPc' = "returned"
  /\ bResult' = [update |-> allResults]
  /\ UNCHANGED <<updates, envDelay, batches, bI, allResults, bRejected, bTrace>>

-----------------------------------------------------------------------------
(* retryWithBackoff *)

\* default of the maxRetries parameter
DefaultMaxRetries == 3
\* default of the baseDelay parameter
DefaultBaseDelay == 1000

\* arguments a caller passes; Undefined selects the parameter's default
MaxRetriesArgs == {Undefined} \cup {[t |-> "number", v |-> n] : n \in -1..MaxRetriesArg}
BaseDelayArgs == {Undefined} \cup {[t |-> "number", v |-> n] : n \in {0, 10}}

\* what one invocation of fn may do: resolve, or reject with a throwable
FnMessages == {"Temporary failure", "Persistent failure"}
FnNonErrors == {Str("boom"), Undefined}
FnValues == {Str("success"), Str("")}

RetryIdle ==
  /\ rPc = "idle" /\ maxRetries = 0 /\ baseDelay = 0 /\ attempt = 0
  /\ lastError = Undefined /\ rResult = Undefined /\ rTrace = <<>>

\* entry: parameters bound, lastError declared, attempt = 0
RetryInit ==
  /\ rPc = "loop"
  /\ \E a \in MaxRetriesArgs : maxRetries = DefaultParam(a, DefaultMaxRetries)
  /\ \E b \in BaseDelayArgs : baseDelay = DefaultParam(b, DefaultBaseDelay)
  /\ attempt = 0
  /\ lastError = Undefined
  /\ rResult = Undefined
  /\ rTrace = <<>>

\* faulty variant: one attempt too few
LoopCondStrict(att, maxR) == att < maxR

\* the loop condition
LoopCond(att, maxR) == att <= maxR

\* the condition under which a failed attempt is followed by a sleep
SleepCond(att, maxR) == att < maxR

\* faulty variant: linear instead of exponential growth
BackoffDelayLinear(base, att) == base * (att + 1)

\* the delay slept after failed attempt att
BackoffDelay(base, att) == base * Pow2(att)

\* what the catch clause stores in lastError
CaughtError(error, inst) ==
  IF IsErrorInstance(error) THEN error ELSE ErrorObj(StringOf(error), inst)

\* loop head, condition true: fn is invoked
RetryCall ==
  /\ rPc = "loop"
  /\ LoopCond(attempt, maxRetries)
  /\ rPc' = "call"
  /\ rTrace' = Append(rTrace, [e |-> "call", attempt |-> attempt])
  /\ UNCHANGED <<maxRetries, baseDelay, attempt, lastError, rResult, nextInst>>

\* faulty variant: the value is kept but the loop goes on: a missing return
RetryFnResolvesNoReturn ==
  /\ rPc = "call"
  /\ \E v \in FnValues :
       /\ rResult' = v
       /\ rTrace' = Append(rTrace, [e |-> "ok", attempt |-> attempt, value |-> v])
  /\ rPc' = "loop"
  /\ attempt' = attempt + 1
  /\ UNCHANGED <<maxRetries, baseDelay, lastError, nextInst>>

\* fn resolves: return await fn()
RetryFnResolves ==
  /\ rPc = "call"
  /\ \E v \in FnValues :
       /\ rResult' = v
       /\ rTrace' = Append(rTrace, [e |-> "ok", attempt |-> attempt, value |-> v])
  /\ rPc' = "returned"
  /\ UNCHANGED <<maxRetries, baseDelay, attempt, lastError, nextInst>>

\* the catch clause, for a rejection of fn with throwable error
RetryCatch(error, used) ==
  /\ lastError' = CaughtError(error, nextInst + used)
  /\ nextInst' = nextInst + used + (IF IsErrorInstance(error) THEN 0 ELSE 1)
  /\ IF SleepCond(attempt, maxRetries)
       THEN /\ rPc' = "sleep"
            /\ rTrace' = rTrace \o <<[e |-> "fail", attempt |-> attempt, thrown |-> error],
                                    [e |-> "sleep", ms |-> BackoffDelay(baseDelay, attempt)]>>
            /\ UNCHANGED attempt
       ELSE /\ rPc' = "loop"
            /\ rTrace' = Append(rTrace, [e |-> "fail", attempt |-> attempt, thrown |-> error])
            /\ attempt' = attempt + 1
  /\ UNCHANGED <<maxRetries, baseDelay, rResult>>

\* fn rejects with a new Error object
RetryFnThrowsError ==
  /\ rPc = "call"
  /\ \E m \in FnMessages : RetryCatch(ErrorObj(m, nextInst), 1)

\* fn rejects with a value that is not an Error
RetryFnThrowsOther ==
  /\ rPc = "call"
  /\ \E v \in FnNonErrors : RetryCatch(v, 0)

\* the sleep's timer fires: next iteration
RetrySleepDone ==
  /\ rPc = "sleep"
  /\ rPc' = "loop"
  /\ attempt' = attempt + 1
  /\ rTrace' = Append(rTrace, [e |-> "woke"])
  /\ UNCHANGED <<maxRetries, baseDelay, lastError, rResult, nextInst>>

\* loop head, condition false: throw lastError
RetryThrow ==
  /\ rPc = "loop"
  /\ ~LoopCond(attempt, maxRetries)
  /\ rPc' = "thrown"
  /\ rResult' = lastError
  /\ UNCHANGED <<maxRetries, baseDelay, attempt, lastError, rTrace, nextInst>>

-----------------------------------------------------------------------------
(* BaseClient: construction, authentication mode, dispatch of a request *)

\* String.prototype.startsWith
StartsWith(s, prefix) == Len(s) >= Len(prefix) /\ SubSeq(s, 1, Len(prefix)) = prefix

EndsWith(s, suffix) ==
  Len(s) >= Len(suffix) /\ SubSeq(s, Len(s) - Len(suffix) + 1, Len(s)) = suffix

\* the characters encodeURIComponent escapes, among those the inputs use,
\* and their escapes; letters, digits and - _ . ! ~ * ' ( ) are kept
ReservedChars == <<" ", "&", "=", "+", "/", "?", "%", "#", ":", "[", "]", "{", "}">>
PercentEscapes == <<"%20", "%26", "%3D", "%2B", "%2F", "%3F", "%25", "%23", "%3A",
                    "%5B", "%5D", "%7B", "%7D">>

EncodeChar(c) ==
  IF \E k \in 1..Len(ReservedChars) : ReservedChars[k] = c
    THEN PercentEscapes[CHOOSE k \in 1..Len(ReservedChars) : ReservedChars[k] = c]
    ELSE c

RECURSIVE EncodeURIComponent(_)
EncodeURIComponent(s) ==
  IF Len(s) = 0 THEN ""
  ELSE EncodeChar(SubSeq(s, 1, 1)) \o EncodeURIComponent(SubSeq(s, 2, Len(s)))

RECURSIVE StripAllSlashes(_)
StripAllSlashes(url) ==
  IF EndsWith(url, "/") THEN StripAllSlashes(SubSeq(url, 1, Len(url) - 1)) ELSE url

\* faulty variant: every trailing slash is removed
normalizeUrlStripAll(url) ==
  IF url = "" THEN ""
  ELSE LET normalized == StripAllSlashes(url)
       IN IF ~StartsWith(normalized, "http://") /\ ~StartsWith(normalized, "https://")
            THEN "https://" \o normalized
            ELSE normalized

\* url.replace(/\/$/, ''), then the protocol is ensured
normalizeUrl(url) ==
  IF url = "" THEN ""
  ELSE LET normalized == IF EndsWith(url, "/") THEN SubSeq(url, 1, Len(url) - 1) ELSE url
       IN IF ~StartsWith(normalized, "http://") /\ ~StartsWith(normalized, "https://")
            THEN "https://" \o normalized
            ELSE normalized

\* faulty variant: only undefined is skipped
IsSkippedUndefinedOnly(value) == value = Undefined

\* value === undefined || value === null
IsSkipped(value) == value = Undefined \/ value = Null

\* Array.isArray(value)
ArrayOf(items) == [t |-> "array", items |-> items]

\* an object value, given by its JSON.stringify text
ObjectOf(json) == [t |-> "object", json |-> json]

\* faulty variant: one entry for the whole array, its items joined by commas
ArrayPartsJoined(key, items) ==
  IF Len(items) = 0 THEN <<>>
  ELSE <<EncodeURIComponent(key \o "[]") \o "="
           \o EncodeURIComponent(StringOf(items[1]))
           \o (IF Len(items) > 1 THEN "%2C" \o EncodeURIComponent(StringOf(items[Len(items)]))
                ELSE "")>>

\* the array branch: key[]=item for every item
ArrayParts(key, items) ==
  [k \in 1..Len(items) |->
     EncodeURIComponent(key \o "[]") \o "=" \o EncodeURIComponent(StringOf(items[k]))]

RECURSIVE QueryParts(_)
\* the loop of buildQueryString over the entries of params, in the order of
\* Object.entries: undefined and null values are skipped, arrays give one
\* part per item, objects their JSON text, scalars key=value
QueryParts(params) ==
  IF Len(params) = 0 THEN <<>>
  ELSE LET entry == Head(params)
           rest == QueryParts(Tail(params))
       IN IF IsSkipped(entry.value)
            THEN rest
          ELSE IF entry.value.t = "array"
            THEN ArrayParts(entry.key, entry.value.items) \o rest
          ELSE IF entry.value.t = "object"
            THEN <<EncodeURIComponent(entry.key) \o "=" \o EncodeURIComponent(entry.value.json)>>
                   \o rest
            ELSE <<EncodeURIComponent(entry.key) \o "=" \o EncodeURIComponent(StringOf(entry.value))>>
                   \o rest

RECURSIVE Join(_, _)
\* Array.prototype.join
Join(parts, sep) ==
  IF Len(parts) = 0 THEN ""
  ELSE IF Len(parts) = 1 THEN parts[1]
  ELSE parts[1] \o sep \o Join(Tail(parts), sep)

buildQueryString(params) == Join(QueryParts(params), "&")

\* config.version || 'wc/v3', for a configuration that sets no version
Version == "wc/v3"

\* what the caller passes as config.url
ConfigUrls ==
  {"https://example.com", "https://example.com/", "http://example.com",
   "example.com", "HTTP://example.com", ""}

\* what the caller passes as config.queryStringAuth
QueryStringAuthConfigs == {Undefined, [t |-> "boolean", v |-> TRUE], [t |-> "boolean", v |-> FALSE]}

\* the credentials: plain ones, and ones with characters a URL reserves
Credentials ==
  { [consumerKey |-> "ck_test", consumerSecret |-> "cs_test"],
    [consumerKey |-> "ck&a=b", consumerSecret |-> "cs 1/+?"] }

Configs ==
  { [url |-> u, queryStringAuth |-> q, consumerKey |-> c.consumerKey,
     consumerSecret |-> c.consumerSecret] :
      u \in ConfigUrls, q \in QueryStringAuthConfigs, c \in Credentials }

NoConfig == [url |-> "", queryStringAuth |-> Undefined, consumerKey |-> "", consumerSecret |-> ""]

\* faulty variant: || in place of ??: an explicit false does not override
QueryStringAuthOr(cfg, base) ==
  IF cfg.queryStringAuth # Undefined /\ cfg.queryStringAuth.v
    THEN TRUE
    ELSE StartsWith(base, "https://")

\* config.queryStringAuth ?? this.baseUrl.startsWith('https://')
QueryStringAuthOf(cfg, base) ==
  IF cfg.queryStringAuth # Undefined
    THEN cfg.queryStringAuth.v
    ELSE StartsWith(base, "https://")

\* new OAuth({ consumer: { key, secret }, signature_method: 'HMAC-SHA256', ... })
NewOAuth(cfg) ==
  [t |-> "OAuth", key |-> cfg.consumerKey, secret |-> cfg.consumerSecret,
   signature_method |-> "HMAC-SHA256"]

\* private oauth: OAuth | null = null, then the constructor's if
OAuthOf(cfg, qsa) == IF ~qsa THEN NewOAuth(cfg) ELSE Null

ClientIdle ==
  /\ config = NoConfig /\ baseUrl = "" /\ queryStringAuth = FALSE /\ oauth = Null
  /\ signings = 0 /\ dispatched = <<>> /\ inflight = <<>>

\* the constructor
ClientInit ==
  /\ config \in Configs
  /\ baseUrl = normalizeUrl(config.url)
  /\ queryStringAuth = QueryStringAuthOf(config, normalizeUrl(config.url))
  /\ oauth = OAuthOf(config, QueryStringAuthOf(config, normalizeUrl(config.url)))
  /\ signings = 0
  /\ dispatched = <<>>
  /\ inflight = <<>>

\* the calls a resource client makes: the method of BaseClient it goes
\* through, the endpoint, and the query parameters (get and delete only)
ClientCalls ==
  { [via |-> "get", endpoint |-> "products", params |-> <<>>],
    [via |-> "get", endpoint |-> "orders",
     params |-> <<[key |-> "status", value |-> Str("on hold")], [key |-> "page", value |-> Str("2")]>>],
    [via |-> "get", endpoint |-> "products",
     params |-> <<[key |-> "search", value |-> Undefined]>>],
    [via |-> "post", endpoint |-> "products/batch", params |-> <<>>],
    [via |-> "put", endpoint |-> "products/12", params |-> <<>>],
    [via |-> "delete", endpoint |-> "products/12",
     params |-> <<[key |-> "force", value |-> Str("true")]>>],
    [via |-> "patch", endpoint |-> "products/batch", params |-> <<>>] }

\* the method each of get, post, put, delete, patch passes to request
MethodOf(via) ==
  CASE via = "get" -> "GET"
    [] via = "post" -> "POST"
    [] via = "put" -> "PUT"
    [] via = "delete" -> "DELETE"
    [] via = "patch" -> "POST"

\* faulty variant: the parameters are always joined with '?'
SeparatorAlwaysQuestion(url) == "?"

\* url.includes('?') ? '&' : '?'
Separator(url) == IF Includes(url, "?") THEN "&" ELSE "?"

\* get and delete: the endpoint with the query string of params, if any
EndpointWithParams(call) ==
  IF call.via \in {"get", "delete"} /\ Len(call.params) > 0
    THEN call.endpoint \o Separator(call.endpoint) \o buildQueryString(call.params)
    ELSE call.endpoint

\* `${this.baseUrl}/wp-json/${this.version}/${endpoint}`
UrlOf(base, endpoint) == base \o "/wp-json/" \o Version \o "/" \o endpoint

\* the query-string branch: requestUrl with the two credentials appended
WithCredentials(url, key, secret) ==
  url \o Separator(url) \o "consumer_key=" \o EncodeURIComponent(key)
      \o "&consumer_secret=" \o EncodeURIComponent(secret)

\* oauth.toHeader(oauth.authorize(requestData)).Authorization: the library
\* draws a nonce for each call of authorize and signs method, url and nonce
\* with the consumer secret
Authorize(signer, requestData, nonce) ==
  [scheme |-> "OAuth", oauth_consumer_key |-> signer.key, oauth_nonce |-> nonce,
   oauth_signature_method |-> signer.signature_method,
   oauth_signature |-> [method |-> requestData.method, url |-> requestData.url,
                        nonce |-> nonce, signedWith |-> signer.secret]]

\* faulty variant: the header of the first signing is kept and sent again
SignedHeaderCached(signer, requestData, count) == Authorize(signer, requestData, 1)

\* the header of this call: authorize is called once, with a new nonce
SignedHeader(signer, requestData, count) == Authorize(signer, requestData, count + 1)

\* get / post / put / delete / patch, then request() up to the call of fetch
ClientRequest ==
  /\ config # NoConfig
  /\ Len(dispatched) < MaxRequests
  /\ \E call \in ClientCalls :
       LET url == UrlOf(baseUrl, EndpointWithParams(call))
           method == MethodOf(call.via)
           requestData == [url |-> url, method |-> method]
       IN IF queryStringAuth
            THEN /\ dispatched' = Append(dispatched,
                      [via |-> call.via, method |-> method, target |-> url,
                       url |-> WithCredentials(url, config.consumerKey, config.consumerSecret),
                       Authorization |-> Undefined])
                 /\ UNCHANGED signings
            ELSE IF oauth # Null
              THEN /\ dispatched' = Append(dispatched,
                        [via |-> call.via, method |-> method, target |-> url, url |-> url,
                         Authorization |-> SignedHeader(oauth, requestData, signings)])
                   /\ signings' = signings + 1
              ELSE /\ dispatched' = Append(dispatched,
                        [via |-> call.via, method |-> method, target |-> url, url |-> url,
                         Authorization |-> Undefined])
                   /\ UNCHANGED signings
  /\ UNCHANGED <<config, baseUrl, queryStringAuth, oauth, inflight>>

-----------------------------------------------------------------------------
(* Several calls of request() on one client at once.  Every call owns the   *)
(* AbortController and the timer it creates; time is left out: an armed     *)
(* timer may fire at any moment.  What follows the arrival of the response  *)
(* is one step here.                                                        *)

\* a call of request() at its first await: controller and timer are new
NewCall ==
  [pc |-> "fetch", timer |-> "armed", aborted |-> FALSE, outcome |-> "none"]

\* how a call that was not aborted settles: JSON data or {}, a typed error
\* of a non-success status, a network error of a failed transport
FetchOutcomes == {"data", "typed", "network"}

\* faulty variant: one controller for the whole client: every running call
\* is aborted
AbortAll(calls, i) ==
  [k \in 1..Len(calls) |->
     IF k = i THEN [calls[k] EXCEPT !.timer = "fired", !.aborted = TRUE]
     ELSE IF calls[k].pc = "fetch" THEN [calls[k] EXCEPT !.aborted = TRUE]
     ELSE calls[k]]

\* the timer callback of call i: () => controller.abort(), on the
\* controller call i created
Abort(calls, i) ==
  [calls EXCEPT ![i] = [calls[i] EXCEPT !.timer = "fired", !.aborted = TRUE]]

\* one more call of request() starts on the client
ConcStart ==
  /\ config # NoConfig
  /\ Len(inflight) < MaxInflight
  /\ inflight' = Append(inflight, NewCall)
  /\ UNCHANGED <<config, baseUrl, queryStringAuth, oauth, signings, dispatched, timeout>>

\* the timer of a call fires
ConcTimerFires ==
  /\ \E i \in 1..Len(inflight) :
       /\ inflight[i].timer = "armed"
       /\ inflight' = Abort(inflight, i)
  /\ UNCHANGED <<config, baseUrl, queryStringAuth, oauth, signings, dispatched, timeout>>

\* the fetch of an aborted call rejects with AbortError: 'Request timeout'
ConcFetchAborted ==
  /\ \E i \in 1..Len(inflight) :
       /\ inflight[i].pc = "fetch"
       /\ inflight[i].aborted
       /\ inflight' = [inflight EXCEPT ![i] =
            [inflight[i] EXCEPT !.pc = "thrown", !.outcome = "timeout",
                                !.timer = ClearTimeout(inflight[i].timer)]]
  /\ UNCHANGED <<config, baseUrl, queryStringAuth, oauth, signings, dispatched, timeout>>

\* the fetch of a call settles of its own: clearTimeout, then the outcome
ConcFetchSettles ==
  /\ \E i \in 1..Len(inflight), o \in FetchOutcomes :
       /\ inflight[i].pc = "fetch"
       /\ ~inflight[i].aborted
       /\ inflight' = [inflight EXCEPT ![i] =
            [inflight[i] EXCEPT !.pc = (IF o = "data" THEN "returned" ELSE "thrown"),
                                !.outcome = o,
                                !.timer = ClearTimeout(inflight[i].timer)]]
  /\ UNCHANGED <<config, baseUrl, queryStringAuth, oauth, signings, dispatched, timeout>>

\* a client with its timeout, no call running yet
ConcInit ==
  /\ ClientInit
  /\ qPc = "idle" /\ timer = "none" /\ aborted = FALSE /\ clock = 0
  /\ response = NoResponse /\ qError = Undefined /\ qResult = Undefined
  /\ jsonCalls = 0
  /\ \E cfg \in TimeoutConfigs : timeout = TimeoutOf(cfg)

-----------------------------------------------------------------------------
(* The utility functions, called on their own *)

NotCalled == [t |-> "none"]

\* the keys and values of the mappings handed to buildQueryString
ParamKeys == {"page", "search", "include"}

ParamValues ==
  { Undefined, Null, Str("1"), Str(""), Str("a b"),
    ArrayOf(<<>>), ArrayOf(<<Str("1"), Str("2"), Str("3")>>), ArrayOf(<<Str("x&y"), Undefined>>),
    ObjectOf("{}") }

\* the mappings of n entries with different keys, as Object.entries lists them
Mappings(n) ==
  { m \in [1..n -> [key : ParamKeys, value : ParamValues]] :
      \A a, b \in 1..n : a # b => m[a].key # m[b].key }

\* the strings handed to normalizeUrl: a protocol or none, a host or none, a
\* path or none, and trailing slashes
UrlProtocols == {"", "http://", "https://", "HTTP://"}
UrlHosts == {"", "example.com", "example.com/store"}

RECURSIVE Slashes(_)
Slashes(n) == IF n = 0 THEN "" ELSE "/" \o Slashes(n - 1)

UrlArgs == { pr \o h \o Slashes(n) : pr \in UrlProtocols, h \in UrlHosts, n \in 0..MaxSlashes }

UtilIdle == uFn = "none" /\ uArg = NotCalled /\ uOut = NotCalled /\ uAgain = NotCalled

\* a function and its argument are chosen
UtilInit ==
  /\ \/ uFn = "buildQueryString"
        /\ \E n \in 0..MaxParams : \E m \in Mappings(n) : uArg = [t |-> "mapping", entries |-> m]
     \/ uFn = "normalizeUrl"
        /\ \E u \in UrlArgs : uArg = Str(u)
  /\ uOut = NotCalled
  /\ uAgain = NotCalled

\* buildQueryString(params)
UtilBuildQueryString ==
  /\ uFn = "buildQueryString"
  /\ uOut = NotCalled
  /\ uOut' = Str(buildQueryString(uArg.entries))
  /\ UNCHANGED <<uFn, uArg, uAgain>>

\* normalizeUrl(url)
UtilNormalizeUrl ==
  /\ uFn = "normalizeUrl"
  /\ uOut = NotCalled
  /\ uOut' = Str(normalizeUrl(uArg.v))
  /\ UNCHANGED <<uFn, uArg, uAgain>>

\* normalizeUrl called on what it returned
UtilNormalizeAgain ==
  /\ uFn = "normalizeUrl"
  /\ uOut # NotCalled
  /\ uAgain = NotCalled
  /\ uAgain' = Str(normalizeUrl(uOut.v))
  /\ UNCHANGED <<uFn, uArg, uOut>>

-----------------------------------------------------------------------------
(* Specifications: one per component *)

RetryNext ==
  \/ RetryCall /\ UNCHANGED <<pvars, bvars, qvars, cvars, uvars>>
  \/ RetryFnResolves /\ UNCHANGED <<pvars, bvars, qvars, cvars, uvars>>
  \/ RetryFnThrowsError /\ UNCHANGED <<pvars, bvars, qvars, cvars, uvars>>
  \/ RetryFnThrowsOther /\ UNCHANGED <<pvars, bvars, qvars, cvars, uvars>>
  \/ RetrySleepDone /\ UNCHANGED <<pvars, bvars, qvars, cvars, uvars>>
  \/ RetryThrow /\ UNCHANGED <<pvars, bvars, qvars, cvars, uvars>>

InitRetry == RetryInit /\ PageIdle /\ BatchIdle /\ ReqIdle /\ ClientIdle /\ UtilIdle /\ nextInst = 1

SpecRetry == InitRetry /\ [][RetryNext]_vars

PageNext ==
  \/ PageList /\ UNCHANGED <<rvars, bvars, qvars, cvars, uvars>>
  \/ PageListResolves /\ UNCHANGED <<rvars, bvars, qvars, cvars, uvars>>
  \/ PageListRejects /\ UNCHANGED <<rvars, bvars, qvars, cvars, uvars>>
  \/ PageReturn /\ UNCHANGED <<rvars, bvars, qvars, cvars, uvars>>

InitPage == PageInit /\ RetryIdle /\ BatchIdle /\ ReqIdle /\ ClientIdle /\ UtilIdle /\ nextInst = 1

SpecPage == InitPage /\ [][PageNext]_vars

BatchNext ==
  \/ BatchStart /\ UNCHANGED <<rvars, pvars, qvars, cvars, uvars>>
  \/ BatchPost /\ UNCHANGED <<rvars, pvars, qvars, cvars, uvars>>
  \/ BatchPostResolves /\ UNCHANGED <<rvars, pvars, qvars, cvars, uvars>>
  \/ BatchPostRejects /\ UNCHANGED <<rvars, pvars, qvars, cvars, uvars>>
  \/ BatchDelayDone /\ UNCHANGED <<rvars, pvars, qvars, cvars, uvars>>
  \/ BatchReturn /\ UNCHANGED <<rvars, pvars, qvars, cvars, uvars>>

InitBatch == BatchInit /\ RetryIdle /\ PageIdle /\ ReqIdle /\ ClientIdle /\ UtilIdle /\ nextInst = 1

SpecBatch == InitBatch /\ [][BatchNext]_vars

\* either helper, called on its own
HelpersNext ==
  \/ PageNext
  \/ BatchNext

InitHelpers ==
  /\ \/ PageInit /\ BatchIdle
     \/ PageIdle /\ BatchInit
  /\ RetryIdle /\ ReqIdle /\ ClientIdle /\ UtilIdle /\ nextInst = 1

SpecHelpers == InitHelpers /\ [][HelpersNext]_vars

RequestNext ==
  \/ ReqTick /\ UNCHANGED <<rvars, pvars, bvars, cvars, uvars>>
  \/ ReqTimerFires /\ UNCHANGED <<rvars, pvars, bvars, cvars, uvars>>
  \/ ReqFetchAborted /\ UNCHANGED <<rvars, pvars, bvars, cvars, uvars>>
  \/ ReqFetchRejects /\ UNCHANGED <<rvars, pvars, bvars, cvars, uvars>>
  \/ ReqFetchResolves /\ UNCHANGED <<rvars, pvars, bvars, cvars, uvars>>
  \/ ReqErrorResponse /\ UNCHANGED <<rvars, pvars, bvars, cvars, uvars>>
  \/ ReqBodyResolves /\ UNCHANGED <<rvars, pvars, bvars, cvars, uvars>>
  \/ ReqBodyRejects /\ UNCHANGED <<rvars, pvars, bvars, cvars, uvars>>

InitRequest == ReqInit /\ RetryIdle /\ PageIdle /\ BatchIdle /\ ClientIdle /\ UtilIdle /\ nextInst = 1

SpecRequest == InitRequest /\ [][RequestNext]_vars

ClientNext ==
  \/ ClientRequest /\ UNCHANGED <<rvars, pvars, bvars, qvars, uvars>>

InitClient == ClientInit /\ RetryIdle /\ PageIdle /\ BatchIdle /\ ReqIdle /\ UtilIdle /\ nextInst = 1

SpecClient == InitClient /\ [][ClientNext]_vars

qlocals == <<qPc, timer, aborted, clock, response, qError, qResult, jsonCalls>>

ConcurrentNext ==
  \/ ConcStart /\ UNCHANGED <<rvars, pvars, bvars, qlocals, uvars>>
  \/ ConcTimerFires /\ UNCHANGED <<rvars, pvars, bvars, qlocals, uvars>>
  \/ ConcFetchAborted /\ UNCHANGED <<rvars, pvars, bvars, qlocals, uvars>>
  \/ ConcFetchSettles /\ UNCHANGED <<rvars, pvars, bvars, qlocals, uvars>>

InitConcurrent == ConcInit /\ RetryIdle /\ PageIdle /\ BatchIdle /\ UtilIdle /\ nextInst = 1

SpecConcurrent == InitConcurrent /\ [][ConcurrentNext]_vars

UtilNext ==
  \/ UtilBuildQueryString /\ UNCHANGED <<rvars, pvars, bvars, qvars, cvars>>
  \/ UtilNormalizeUrl /\ UNCHANGED <<rvars, pvars, bvars, qvars, cvars>>
  \/ UtilNormalizeAgain /\ UNCHANGED <<rvars, pvars, bvars, qvars, cvars>>

InitUtil ==
  UtilInit /\ RetryIdle /\ PageIdle /\ BatchIdle /\ ReqIdle /\ ClientIdle /\ nextInst = 1

SpecUtil == InitUtil /\ [][UtilNext]_vars

-----------------------------------------------------------------------------
(* Properties of retryWithBackoff *)

EventsOf(trace, kind) == SelectSeq(trace, LAMBDA ev : ev.e = kind)

NumCalls == Len(EventsOf(rTrace, "call"))
NumFails == Len(EventsOf(rTrace, "fail"))
RetrySleeps == EventsOf(rTrace, "sleep")

\* the value fn threw on its most recent failed invocation
LastThrown == EventsOf(rTrace, "fail")[NumFails].thrown

C5_SequentialBackoff ==
  \A j \in 1..Len(rTrace) :
    LET ev == rTrace[j] IN
    /\ ev.e = "call" =>
          \/ j = 1 /\ ev.attempt = 0
          \/ /\ j > 4 /\ ev.attempt > 0
             /\ rTrace[j-1].e = "woke"
             /\ rTrace[j-2] = [e |-> "sleep", ms |-> baseDelay * Pow2(ev.attempt - 1)]
             /\ rTrace[j-3].e = "fail" /\ rTrace[j-3].attempt = ev.attempt - 1
    /\ ev.e \in {"ok", "fail"} =>
          j > 1 /\ rTrace[j-1] = [e |-> "call", attempt |-> ev.attempt]
    /\ ev.e = "sleep" =>
          j > 1 /\ rTrace[j-1].e = "fail" /\ rTrace[j-1].attempt < maxRetries
    /\ ev.e = "woke" => j > 1 /\ rTrace[j-1].e = "sleep"
    /\ (ev.e = "fail" /\ ev.attempt < maxRetries) =>
          j < Len(rTrace) /\ rTrace[j+1].e = "sleep"
    /\ (ev.e = "ok" \/ (ev.e = "fail" /\ ev.attempt >= maxRetries)) => j = Len(rTrace)
    /\ (ev.e = "sleep" /\ j < Len(rTrace)) => rTrace[j+1].e = "woke"
    /\ (ev.e = "woke" /\ j < Len(rTrace)) => rTrace[j+1].e = "call"

\* three sleeps of 10, 20 and 40 ms after failures of different kinds
C5_Witness ==
  /\ rPc \in {"returned", "thrown"}
  /\ baseDelay = 10
  /\ [k \in 1..Len(RetrySleeps) |-> RetrySleeps[k].ms] = <<10, 20, 40>>
  /\ \E a, b \in 1..NumFails :
       /\ IsErrorInstance(EventsOf(rTrace, "fail")[a].thrown)
       /\ ~IsErrorInstance(EventsOf(rTrace, "fail")[b].thrown)

\* C6: a success is final.  A success event is the last event of the trace,
\* the call has returned that success value, and fn was invoked exactly
\* (number of failures) + 1 times, the failures being at most maxRetries.
C6_SuccessAfterFailures ==
  \A j \in 1..Len(rTrace) :
    rTrace[j].e = "ok" =>
      /\ j = Len(rTrace)
      /\ rPc = "returned"
      /\ rResult = rTrace[j].value
      /\ NumCalls = NumFails + 1
      /\ NumFails = rTrace[j].attempt
      /\ NumFails <= maxRetries

\* two failures, then a success on the third invocation
C6_Witness ==
  /\ rPc = "returned" /\ maxRetries = 3
  /\ NumFails = 2 /\ NumCalls = 3
  /\ rResult = Str("success")

\* C29: for every integer maxRetries, a settled retryWithBackoff has invoked
\* fn at least once, and a rejected one has rejected with an error that
\* stems from an invocation of fn (the Error fn threw, or the Error made
\* from the value it threw), never with undefined.
C29_Original ==
  rPc \in {"returned", "thrown"} =>
    /\ NumCalls >= 1
    /\ rPc = "thrown" =>
         /\ rResult # Undefined
         /\ IsErrorInstance(rResult)
         /\ NumFails >= 1
         /\ \/ rResult = LastThrown
            \/ rResult.message = StringOf(LastThrown)

-----------------------------------------------------------------------------
(* Properties of getAll / listAll *)

PageRequests == EventsOf(pTrace, "request")
PageResponses == EventsOf(pTrace, "response")

RECURSIVE ConcatItems(_, _)
\* the items of the first k responses, in response order
ConcatItems(resps, k) ==
  IF k = 0 THEN <<>> ELSE ConcatItems(resps, k - 1) \o resps[k].items

\* C7: the loop stops at the first short page.  A further request is issued
\* only after a page of at least perPage items; once the helper has
\* returned, the last page fetched is the first short one, the number of
\* list calls is its index, and the result holds the items of all the pages
\* fetched.
C7_StopsAtFirstShortPage ==
  /\ \A j \in 1..Len(PageResponses) :
       j < Len(PageRequests) => Len(PageResponses[j].items) >= perPage
  /\ pPc = "returned" =>
       LET k == Len(PageRequests) IN
       /\ k >= 1 /\ Len(PageResponses) = k
       /\ Len(PageResponses[k].items) < perPage
       /\ \A j \in 1..(k - 1) : Len(PageResponses[j].items) >= perPage
       /\ pResult = ConcatItems(PageResponses, k)

\* two full pages, then the empty-page probe: three calls, and a return
C7_Witness ==
  /\ pPc = "returned" /\ perPage = 2
  /\ Len(PageRequests) = 3
  /\ Len(PageResponses[1].items) = 2
  /\ Len(PageResponses[2].items) = 2
  /\ PageResponses[3].items = <<>>
  /\ Len(pResult) = 4

\* C8: the list operation is invoked with pages 1, 2, 3, ... in order, each
\* with the same page size and each only after the response to the previous
\* one; the accumulated (and returned) list is the concatenation of the
\* pages received, in page order.
C8_PagesInOrder ==
  /\ \A j \in 1..Len(pTrace) :
       IF j % 2 = 1
         THEN pTrace[j] = [e |-> "request", page |-> (j + 1) \div 2, per_page |-> perPage]
         ELSE pTrace[j].e = "response" /\ pTrace[j].page = j \div 2
  /\ allProducts = ConcatItems(PageResponses, Len(PageResponses))
  /\ pPc = "returned" => pResult = ConcatItems(PageResponses, Len(PageRequests))

\* three pages of the default size were fetched and the helper returned
C8_Witness ==
  /\ pPc = "returned" /\ perPage = DefaultPerPage
  /\ Len(PageRequests) = 3
  /\ Len(pResult) > 2 * DefaultPerPage

\* C27: for every page size the helpers accept, an empty page ends the
\* loop: the response with an empty page is the last one, no request follows
\* it, and on return to the loop head hasMore is false, so that the helper
\* returns.
C27_Original ==
  /\ \A j \in 1..Len(PageResponses) :
       PageResponses[j].items = <<>> => j = Len(PageRequests)
  /\ (pPc = "loop" /\ Len(PageResponses) > 0
        /\ PageResponses[Len(PageResponses)].items = <<>>) => ~hasMore

-----------------------------------------------------------------------------
(* Properties of batchUpdate *)

RECURSIVE ConcatSeqs(_, _)
\* the first k sequences of seqs, concatenated
ConcatSeqs(seqs, k) == IF k = 0 THEN <<>> ELSE ConcatSeqs(seqs, k - 1) \o seqs[k]

CeilDiv(n, d) == (n + d - 1) \div d

\* the chunking loop has run
Chunked == bPc \notin {"idle", "start"} /\ Len(updates) > 0

\* C9: the n updates are partitioned into ceil(n/100) consecutive chunks in
\* input order: every chunk but the last holds exactly 100 items, the last
\* between 1 and 100, input item k lies in chunk (k-1) div 100 at offset
\* (k-1) mod 100, the chunks hold n items in all (so each input item lies in
\* exactly one chunk), and the chunks concatenated give the input.
C9_ChunksPartitionInput ==
  Chunked =>
    LET n == Len(updates)
        c == Len(batches)
    IN /\ c = CeilDiv(n, 100)
       /\ \A j \in 1..(c - 1) : Len(batches[j]) = 100
       /\ Len(batches[c]) \in 1..100
       /\ \A k \in 1..n : batches[((k - 1) \div 100) + 1][((k - 1) % 100) + 1] = updates[k]
       /\ Len(ConcatSeqs(batches, c)) = n
       /\ ConcatSeqs(batches, c) = updates

\* 250 updates were cut into chunks of 100, 100 and 50
C9_Witness ==
  /\ Chunked /\ Len(updates) = 250
  /\ [j \in 1..Len(batches) |-> Len(batches[j])] = <<100, 100, 50>>

BatchPosts == EventsOf(bTrace, "post")
BatchDelays == EventsOf(bTrace, "delay")

\* C10: chunks are submitted one at a time and in chunk order.  Chunk 0 is
\* the first event; chunk i+1 is posted only after the response to chunk i
\* and a completed delay; a delay follows a response exactly when a chunk
\* remains; after a run of c chunks, c posts and c-1 delays have occurred
\* and the last event is the response to the last chunk.
C10_ChunksSequentialWithDelays ==
  /\ \A j \in 1..Len(bTrace) :
       LET ev == bTrace[j] IN
       /\ ev.e = "post" =>
            /\ ev.chunk < Len(batches)
            /\ ev.body = BatchRequest(batches[ev.chunk + 1])
            /\ \/ j = 1 /\ ev.chunk = 0
               \/ /\ j > 4 /\ ev.chunk > 0
                  /\ bTrace[j-1].e = "delayed"
                  /\ bTrace[j-2].e = "delay"
                  /\ bTrace[j-3].e = "response" /\ bTrace[j-3].chunk = ev.chunk - 1
       /\ ev.e = "response" =>
            /\ j > 1 /\ bTrace[j-1].e = "post" /\ bTrace[j-1].chunk = ev.chunk
            /\ IF ev.chunk < Len(batches) - 1
                 THEN j < Len(bTrace) /\ bTrace[j+1].e = "delay"
                 ELSE j = Len(bTrace)
       /\ ev.e = "delay" =>
            /\ bTrace[j-1].e = "response" /\ bTrace[j-1].chunk < Len(batches) - 1
            /\ ev.ms = DelayMs(envDelay)
            /\ j < Len(bTrace) => bTrace[j+1].e = "delayed"
       /\ ev.e = "delayed" =>
            /\ bTrace[j-1].e = "delay"
            /\ j < Len(bTrace) => bTrace[j+1].e = "post"
  /\ (bPc = "returned" /\ Len(updates) > 0) =>
       /\ Len(BatchPosts) = Len(batches)
       /\ Len(BatchDelays) = Len(batches) - 1
       /\ bTrace[Len(bTrace)].e = "response"

\* three chunks were submitted with two delays of the default 100 ms
C10_Witness ==
  /\ bPc = "returned"
  /\ Len(batches) = 3
  /\ Len(BatchPosts) = 3
  /\ [k \in 1..Len(BatchDelays) |-> BatchDelays[k].ms] = <<Num(100), Num(100)>>

BatchResponseBodies == EventsOf(bTrace, "response")

RECURSIVE ConcatUpdates(_, _)
\* the update lists of the first k chunk responses, in response order; a
\* response without an update list contributes nothing
ConcatUpdates(resps, k) ==
  IF k = 0 THEN <<>>
  ELSE ConcatUpdates(resps, k - 1)
         \o (IF resps[k].body.hasUpdate THEN resps[k].body.update ELSE <<>>)

\* C11: when every chunk succeeded, the update list batchUpdate returns is
\* the concatenation, in chunk order, of the update lists of the chunk
\* responses, a response without an update list contributing nothing; the
\* responses are those of chunks 0, 1, 2, ... in that order.
C11_ResultsConcatenated ==
  (bPc = "returned" /\ Len(updates) > 0) =>
     /\ Len(BatchResponseBodies) = Len(batches)
     /\ \A j \in 1..Len(BatchResponseBodies) : BatchResponseBodies[j].chunk = j - 1
     /\ bResult = [update |-> ConcatUpdates(BatchResponseBodies, Len(BatchResponseBodies))]

\* three chunks succeeded: a full update list, none, and a partial one
C11_Witness ==
  /\ bPc = "returned" /\ Len(batches) = 3
  /\ Len(BatchResponseBodies[1].body.update) = 100
  /\ ~BatchResponseBodies[2].body.hasUpdate
  /\ BatchResponseBodies[3].body.update = <<[id |-> 201]>>
  /\ Len(bResult.update) = 101

\* C21: a helper whose awaited page fetch or chunk submission rejected with
\* a typed error has rejected with that very error object, kind, status,
\* body and identity unchanged; a helper that has returned had no rejection
\* (no error is swallowed, no partial result is returned as a success), and
\* a helper rejects only because an awaited call did.
C21_TypedErrorsPropagateUnchanged ==
  /\ pRejected # Undefined => (pPc = "thrown" /\ pResult = pRejected /\ IsWooError(pResult))
  /\ bRejected # Undefined => (bPc = "thrown" /\ bResult = bRejected /\ IsWooError(bResult))
  /\ pPc = "returned" => pRejected = Undefined
  /\ bPc = "returned" => bRejected = Undefined
  /\ pPc = "thrown" => pRejected # Undefined
  /\ bPc = "thrown" => bRejected # Undefined

\* the second chunk of three was rejected with a 500 after the first had
\* delivered its results
C21_Witness ==
  /\ bPc = "thrown" /\ Len(batches) = 3 /\ bI = 1
  /\ Len(allResults) = 100
  /\ bRejected.name = "WooCommerceAPIError"
  /\ bResult.statusCode = Num(500)

\* C26: once the submission of a chunk has failed, batchUpdate has rejected
\* with that error and the failed submission is the last thing it did: the
\* chunks before the failed one, and no others, were submitted and answered,
\* no chunk after it was submitted, and what was collected from the answered
\* chunks is not part of what the caller gets.  The updates of the answered
\* chunks are a prefix of the input that leaves out at least the failed
\* chunk.
C26_FailedChunkStopsBatch ==
  bRejected # Undefined =>
    /\ bPc = "thrown"
    /\ bResult = bRejected /\ IsErrorInstance(bResult)
    /\ bTrace[Len(bTrace)].e = "post" /\ bTrace[Len(bTrace)].chunk = bI
    /\ [j \in 1..Len(BatchPosts) |-> BatchPosts[j].chunk] = [j \in 1..(bI + 1) |-> j - 1]
    /\ [j \in 1..Len(BatchResponseBodies) |-> BatchResponseBodies[j].chunk] = [j \in 1..bI |-> j - 1]
    /\ allResults = ConcatUpdates(BatchResponseBodies, bI)
    /\ LET applied == ConcatSeqs(batches, bI)
       IN /\ Len(applied) = 100 * bI
          /\ Len(applied) < Len(updates)
          /\ applied = SubSeq(updates, 1, Len(applied))

\* the third chunk of three failed after the first two had been applied,
\* one of them answered with a partial update list
C26_Witness ==
  /\ bPc = "thrown" /\ Len(updates) = 250 /\ bI = 2
  /\ Len(BatchPosts) = 3 /\ Len(BatchResponseBodies) = 2
  /\ Len(allResults) = 101
  /\ IsErrorInstance(bResult)

\* C12: batchUpdate called with an empty list returns { update: [] } as its
\* first and only step: no chunk is built, no request is posted, no delay is
\* taken, and the call does not reject.
C12_EmptyInputIsNoOp ==
  (bPc \notin {"idle", "start"} /\ Len(updates) = 0) =>
     /\ bPc = "returned"
     /\ bResult = [update |-> <<>>]
     /\ bTrace = <<>>
     /\ batches = <<>>

\* the call with an empty list has returned
C12_Witness ==
  /\ bPc = "returned" /\ updates = <<>>
  /\ bResult.update = <<>>

-----------------------------------------------------------------------------
(* Properties of BaseClient.request *)

\* the call has settled after a response with a non-success status
SettledOnErrorResponse ==
  /\ qPc \in {"returned", "thrown"}
  /\ response # NoResponse
  /\ response.status \notin 200..299

\* the kind the status code stands for
KindOfStatus(status) ==
  CASE status = 401 -> "WooCommerceAuthenticationError"
    [] status = 403 -> "WooCommerceAuthorizationError"
    [] status = 404 -> "WooCommerceNotFoundError"
    [] status = 400 \/ status = 422 -> "WooCommerceValidationError"
    [] status = 429 -> "WooCommerceRateLimitError"
    [] status >= 500 -> "WooCommerceAPIError"
    [] OTHER -> "WooCommerceError"

\* C1 (as claimed): after a non-success response, whatever its body, the
\* call rejects with the error kind its status code stands for, and the base
\* kind carries the status code and the decoded body; it never returns.
C1_Original ==
  SettledOnErrorResponse =>
    /\ qPc = "thrown"
    /\ qResult.name = KindOfStatus(response.status)
    /\ qResult.name = "WooCommerceError" =>
         /\ qResult.statusCode = Num(response.status)
         /\ qResult.response = qError.response

\* C2 (as claimed): a typed error raised inside request() reaches the caller
\* unchanged: the rejection value is the very error the catch clause caught.
C2_Original ==
  (qPc = "thrown" /\ IsWooError(qError)) => qResult = qError

\* C3 (as claimed): once the execution has lasted longer than the timeout,
\* in whatever phase, the call has been cancelled and has rejected with the
\* network error 'Request timeout'.
C3_Original ==
  (qPc # "idle" /\ clock > timeout) =>
    /\ qPc = "thrown"
    /\ qResult.name = "WooCommerceNetworkError"
    /\ qResult.message = "Request timeout"

\* fetch rejected of its own, not because the timer aborted it: the
\* transport failed
TransportFailed ==
  /\ qPc = "thrown"
  /\ response = NoResponse
  /\ ~(IsErrorInstance(qError) /\ qError.name = "AbortError")

\* C16 (as claimed): whenever the transport fails with an error, whatever the
\* error's text, the call rejects with a network error whose originalError
\* is that error.
C16_Original ==
  (TransportFailed /\ IsErrorInstance(qError)) =>
    /\ qResult.name = "WooCommerceNetworkError"
    /\ qResult.originalError = qError

\* a throwable raised after the response arrived that is not a typed error:
\* the decoding of a success body failed
UnexpectedThrowable ==
  /\ qPc = "thrown"
  /\ response # NoResponse
  /\ ~IsWooError(qError)

\* the message of a throwable: its message property, or its text when it is
\* not an Error
MessageOfThrowable(v) == IF IsErrorInstance(v) THEN v.message ELSE StringOf(v)

\* C17 (as claimed): a throwable that is neither a typed error nor a
\* transport or timeout failure reaches the caller as a base-kind error with
\* the throwable's own message.
C17_Original ==
  UnexpectedThrowable =>
    /\ qResult.name = "WooCommerceError"
    /\ qResult.message = MessageOfThrowable(qError)

\* C18: once a response with status 204 has arrived the call has returned
\* an empty object and response.json() was never called; a call that
\* returned after any other status had a success status, called
\* response.json() exactly once and returned what it resolved with.
C18_NoContentIsNotDecoded ==
  /\ response.status = 204 =>
       /\ qPc = "returned"
       /\ qResult = [t |-> "object", message |-> Undefined]
       /\ jsonCalls = 0
  /\ (qPc = "returned" /\ response.status # 204) =>
       /\ response.status \in 200..299
       /\ jsonCalls = 1
       /\ qResult = JsonBody(Str("data"))

\* a 204 response arrived late in the timeout and the call returned
C18_Witness ==
  /\ qPc = "returned" /\ response.status = 204
  /\ jsonCalls = 0 /\ clock > 0
  /\ qResult = [t |-> "object", message |-> Undefined]

\* the message the precedence rule gives for the error response that was
\* received; the decoded body, if any, is the response field of the error
\* handleErrorResponse raised
ExpectedMessage ==
  LET body == qError.response IN
  IF body # Undefined /\ body.message # Undefined /\ body.message # Str("")
    THEN body.message.v
  ELSE IF response.statusText # "" THEN response.statusText
  ELSE "Request failed"

\* C19 (as claimed): after a non-success response the call rejects with a
\* typed error of the status (never a decoding error) whose message is the
\* body's message if the body is JSON with a non-empty message, else the
\* status text if non-empty, else 'Request failed'.
C19_Original ==
  SettledOnErrorResponse =>
    /\ qPc = "thrown"
    /\ IsWooError(qResult)
    /\ qResult.message = ExpectedMessage

\* a header value made of decimal digits only
IsNumeric(s) == Len(s) > 0 /\ \A k \in 1..Len(s) : IsDigit(SubSeq(s, k, k))

RECURSIVE DecimalValue(_)
DecimalValue(s) ==
  IF Len(s) = 0 THEN 0
  ELSE 10 * DecimalValue(SubSeq(s, 1, Len(s) - 1)) + DigitValue(SubSeq(s, Len(s), Len(s)))

\* C20 (as claimed): the rate-limit error raised for a 429 response carries
\* the number of the Retry-After header when the header is present and
\* numeric, and undefined when it is missing or not numeric.
C20_Original ==
  (qPc = "thrown" /\ response.status = 429 /\ qResult.name = "WooCommerceRateLimitError") =>
    qResult.retryAfter =
      (IF response.retryAfter # Undefined /\ IsNumeric(response.retryAfter.v)
         THEN Num(DecimalValue(response.retryAfter.v))
         ELSE Undefined)

\* C28: on every exit path of request() the call's timer is cleared before
\* the call settles.  A settled call (returned or thrown) has no armed timer,
\* so no abort can fire for it; the timer is armed only while fetch is
\* awaited; and a timer that did fire fired during fetch, the call having
\* settled, if it has, with the abort as its cause.
C28_TimerClearedOnEveryExit ==
  /\ qPc \in {"returned", "thrown"} => timer \in {"cleared", "fired"}
  /\ timer = "armed" => qPc = "fetch"
  /\ timer = "fired" =>
       /\ aborted /\ qPc \in {"fetch", "thrown"}
       /\ qPc = "thrown" => qError.name = "AbortError"
  /\ (aborted /\ qPc # "idle") => timer = "fired"

\* a classified HTTP error left request() through the catch clause with the
\* timer cleared before the deadline
C28_Witness ==
  /\ qPc = "thrown" /\ timer = "cleared" /\ clock < timeout
  /\ response.status = 404 /\ jsonCalls = 1
  /\ qResult.name = "WooCommerceNotFoundError"

-----------------------------------------------------------------------------
(* Properties of the client's authentication *)

\* the url was given with one of the two protocols normalizeUrl knows
HasProtocol(url) == StartsWith(url, "http://") \/ StartsWith(url, "https://")

IndexOf(s, c) ==
  IF \E k \in 1..Len(s) : SubSeq(s, k, k) = c
    THEN CHOOSE k \in 1..Len(s) :
           SubSeq(s, k, k) = c /\ \A m \in 1..(k - 1) : SubSeq(s, m, m) # c
    ELSE 0

RECURSIVE Split(_, _)
\* the non-empty pieces of s between occurrences of the character c
Split(s, c) ==
  LET k == IndexOf(s, c) IN
  IF Len(s) = 0 THEN <<>>
  ELSE IF k = 0 THEN <<s>>
  ELSE (IF k = 1 THEN <<>> ELSE <<SubSeq(s, 1, k - 1)>>) \o Split(SubSeq(s, k + 1, Len(s)), c)

\* the query of a URL: what follows its first '?'
QueryOf(url) ==
  LET k == IndexOf(url, "?") IN IF k = 0 THEN "" ELSE SubSeq(url, k + 1, Len(url))

\* name=value split at the first '='
ParamOf(piece) ==
  LET k == IndexOf(piece, "=") IN
  IF k = 0 THEN [name |-> piece, value |-> ""]
  ELSE [name |-> SubSeq(piece, 1, k - 1), value |-> SubSeq(piece, k + 1, Len(piece))]

\* the query parameters of a URL as a server reads them, values still encoded
ParamsOf(url) ==
  LET pieces == Split(QueryOf(url), "&") IN [k \in 1..Len(pieces) |-> ParamOf(pieces[k])]

RECURSIVE DecodeURIComponent(_)
\* percent-decoding, for the escapes of PercentEscapes
DecodeURIComponent(s) ==
  IF Len(s) = 0 THEN ""
  ELSE IF SubSeq(s, 1, 1) = "%" /\ Len(s) >= 3
         /\ \E k \in 1..Len(PercentEscapes) : PercentEscapes[k] = SubSeq(s, 1, 3)
    THEN ReservedChars[CHOOSE k \in 1..Len(PercentEscapes) : PercentEscapes[k] = SubSeq(s, 1, 3)]
           \o DecodeURIComponent(SubSeq(s, 4, Len(s)))
    ELSE SubSeq(s, 1, 1) \o DecodeURIComponent(SubSeq(s, 2, Len(s)))

\* s holds none of the characters that delimit a URL's query or its parameters
IsPercentEncoded(s) ==
  \A k \in 1..Len(s) : SubSeq(s, k, k) \notin {" ", "&", "=", "+", "/", "?", "#", ":"}

\* C14: in query-string mode the URL of every dispatched request is the
\* request's URL followed by '?' when that URL holds no '?' and by '&' when
\* it does, and then by the two credentials: read as a server reads them, the
\* query parameters of the final URL are those of the request's URL followed
\* by consumer_key and consumer_secret, whose percent-encoded values decode
\* to the configured key and secret; the client sets no Authorization header.
C14_CredentialsInQueryString ==
  queryStringAuth =>
    \A j \in 1..Len(dispatched) :
      LET d == dispatched[j]
          own == ParamsOf(d.target)
          all == ParamsOf(d.url)
      IN /\ StartsWith(d.url, d.target)
         /\ Len(d.url) > Len(d.target)
         /\ SubSeq(d.url, Len(d.target) + 1, Len(d.target) + 1)
              = (IF IndexOf(d.target, "?") = 0 THEN "?" ELSE "&")
         /\ Len(all) = Len(own) + 2
         /\ SubSeq(all, 1, Len(own)) = own
         /\ all[Len(own) + 1].name = "consumer_key"
         /\ all[Len(own) + 2].name = "consumer_secret"
         /\ IsPercentEncoded(all[Len(own) + 1].value)
         /\ IsPercentEncoded(all[Len(own) + 2].value)
         /\ DecodeURIComponent(all[Len(own) + 1].value) = config.consumerKey
         /\ DecodeURIComponent(all[Len(own) + 2].value) = config.consumerSecret
         /\ d.Authorization = Undefined

\* credentials with reserved characters, sent on a GET with query parameters
\* of its own and on a request without any
C14_Witness ==
  /\ queryStringAuth /\ config.consumerKey = "ck&a=b"
  /\ Len(dispatched) >= 2
  /\ dispatched[1].via = "get" /\ Len(ParamsOf(dispatched[1].target)) = 2
  /\ Len(ParamsOf(dispatched[1].url)) = 4
  /\ dispatched[2].via = "post" /\ Len(ParamsOf(dispatched[2].url)) = 2

\* C15: in signed-header mode authorize has been called exactly once per
\* dispatched request; every request carries the Authorization header signed
\* for its own method and URL; no two requests, be they identical (a retried
\* attempt) or successive (pages, chunks), carry the same header or nonce;
\* and the request URL is sent as it is, without the consumer secret.
C15_OneSignaturePerRequest ==
  (config # NoConfig /\ ~queryStringAuth) =>
    /\ signings = Len(dispatched)
    /\ \A j \in 1..Len(dispatched) :
         LET d == dispatched[j] IN
         /\ d.Authorization # Undefined
         /\ d.Authorization.scheme = "OAuth"
         /\ d.Authorization.oauth_signature.method = d.method
         /\ d.Authorization.oauth_signature.url = d.url
         /\ d.url = d.target
         /\ ~Includes(d.url, "consumer_secret")
         /\ ~Includes(d.url, EncodeURIComponent(config.consumerSecret))
         /\ ~Includes(d.url, config.consumerSecret)
    /\ \A j, k \in 1..Len(dispatched) :
         j # k =>
           /\ dispatched[j].Authorization # dispatched[k].Authorization
           /\ dispatched[j].Authorization.oauth_nonce # dispatched[k].Authorization.oauth_nonce

\* the same request sent twice in signed-header mode, as a retry sends it
C15_Witness ==
  /\ config # NoConfig /\ ~queryStringAuth
  /\ Len(dispatched) >= 2
  /\ dispatched[1].method = dispatched[2].method
  /\ dispatched[1].url = dispatched[2].url
  /\ dispatched[1].Authorization # dispatched[2].Authorization

\* C30: a GET or DELETE whose parameters encode to nothing goes to the URL
\* of the call without parameters: the URL request() builds for a get or
\* delete never ends with a dangling '?', and the URL dispatched never holds
\* an empty query segment ('?&', '&&', or a '?' or '&' at its end).
C30_Original ==
  \A j \in 1..Len(dispatched) :
    LET d == dispatched[j] IN
    d.via \in {"get", "delete"} =>
      /\ ~EndsWith(d.target, "?")
      /\ ~Includes(d.url, "?&")
      /\ ~Includes(d.url, "&&")
      /\ ~EndsWith(d.url, "?") /\ ~EndsWith(d.url, "&")

-----------------------------------------------------------------------------
(* Properties of concurrent calls *)

\* C22: in every step of a client with several calls in flight, the
\* configuration (the constructor's argument, base URL, timeout, auth mode
\* and signer) is left as it is; a call becomes aborted only in the step in
\* which its own timer fires, and that step changes no other call; a call
\* settles with 'Request timeout' only if its own timer fired, and every
\* other call that settles does so with the outcome of its own fetch.
C22_TimeoutsAreIndependent ==
  [][ /\ UNCHANGED <<config, baseUrl, queryStringAuth, oauth, timeout>>
      /\ \A i \in 1..Len(inflight) :
           /\ (inflight'[i].aborted /\ ~inflight[i].aborted) =>
                /\ inflight[i].timer = "armed"
                /\ inflight'[i].timer = "fired"
                /\ \A j \in 1..Len(inflight) : j # i => inflight'[j] = inflight[j]
           /\ (inflight'[i].outcome = "timeout") <=>
                (inflight'[i].pc = "thrown" /\ inflight'[i].timer = "fired")
           /\ (inflight[i].pc = "fetch" /\ inflight'[i].pc # "fetch"
                 /\ inflight[i].timer = "armed") =>
                inflight'[i].outcome \in FetchOutcomes
    ]_vars

\* one call timed out while the other, started before it, returned its data
C22_Witness ==
  /\ Len(inflight) = 2
  /\ inflight[2].outcome = "timeout" /\ inflight[2].timer = "fired"
  /\ inflight[1].outcome = "data" /\ inflight[1].pc = "returned"
  /\ inflight[1].timer = "cleared"

-----------------------------------------------------------------------------
(* Properties of buildQueryString and normalizeUrl *)

\* the entries of a query string as a server reads them
EntriesOf(qs) ==
  LET pieces == Split(qs, "&") IN [k \in 1..Len(pieces) |-> ParamOf(pieces[k])]

\* the key an entry stands for: its decoded name, without the [] of an array
KeyOfEntry(entry) ==
  LET name == DecodeURIComponent(entry.name) IN
  IF EndsWith(name, "[]") THEN SubSeq(name, 1, Len(name) - 2) ELSE name

RECURSIVE Collapse(_)
\* a sequence without the repetitions of an element next to itself
Collapse(seq) ==
  IF Len(seq) <= 1 THEN seq
  ELSE IF seq[1] = seq[2] THEN Collapse(Tail(seq))
  ELSE <<seq[1]>> \o Collapse(Tail(seq))

\* the keys of a mapping that have something to emit, in mapping order
EmittingKeys(entries) ==
  LET kept == SelectSeq(entries, LAMBDA en :
                  /\ en.value # Undefined /\ en.value # Null
                  /\ en.value # ArrayOf(<<>>))
  IN [k \in 1..Len(kept) |-> kept[k].key]

BuildQueryStringReturned == uFn = "buildQueryString" /\ uOut # NotCalled

\* C23: the string buildQueryString returns holds no entry for a key whose
\* value is undefined or null; the keys of its entries are the remaining
\* keys, in mapping order; the entries are joined by single '&' with none
\* in front or at the end; and the empty mapping gives the empty string.
C23_UndefinedAndNullOmitted ==
  BuildQueryStringReturned =>
    LET entries == uArg.entries
        out == uOut.v
        got == EntriesOf(out)
    IN /\ \A k \in 1..Len(entries) :
            entries[k].value \in {Undefined, Null} =>
              /\ \A j \in 1..Len(got) : KeyOfEntry(got[j]) # entries[k].key
              /\ ~Includes(out, entries[k].key)
       /\ Collapse([j \in 1..Len(got) |-> KeyOfEntry(got[j])]) = EmittingKeys(entries)
       /\ ~StartsWith(out, "&") /\ ~EndsWith(out, "&") /\ ~Includes(out, "&&")
       /\ entries = <<>> => out = ""

\* a mapping with a null value and a scalar one after it
C23_Witness ==
  /\ BuildQueryStringReturned
  /\ Len(uArg.entries) = 2
  /\ uArg.entries[1] = [key |-> "search", value |-> Null]
  /\ uArg.entries[2] = [key |-> "page", value |-> Str("1")]
  /\ uOut = Str("page=1")

\* C24: for every key with an array value the string holds exactly one entry
\* per element of the array, named key[] (percent-encoded: key%5B%5D), their
\* values being the elements in the array's order; these entries stand
\* together, at the key's place in the mapping.
C24_OneEntryPerArrayElement ==
  BuildQueryStringReturned =>
    LET entries == uArg.entries
        got == EntriesOf(uOut.v)
    IN \A k \in 1..Len(entries) :
         entries[k].value.t = "array" =>
           LET items == entries[k].value.items
               mine == SelectSeq(got, LAMBDA en : en.name = entries[k].key \o "%5B%5D")
           IN /\ Len(mine) = Len(items)
              /\ \A j \in 1..Len(items) :
                   DecodeURIComponent(mine[j].value) = StringOf(items[j])
              /\ \A j \in 1..Len(got) :
                   KeyOfEntry(got[j]) = entries[k].key =>
                     DecodeURIComponent(got[j].name) = entries[k].key \o "[]"

\* an array of three elements, followed by a scalar parameter
C24_Witness ==
  /\ BuildQueryStringReturned
  /\ Len(uArg.entries) = 2
  /\ uArg.entries[1] = [key |-> "include", value |-> ArrayOf(<<Str("1"), Str("2"), Str("3")>>)]
  /\ uArg.entries[2].key = "page"
  /\ uOut = Str("include%5B%5D=1&include%5B%5D=2&include%5B%5D=3&page=1")

NormalizeUrlReturned == uFn = "normalizeUrl" /\ uOut # NotCalled

\* a string without one trailing '/', if it has one
StripOne(str) == IF EndsWith(str, "/") THEN SubSeq(str, 1, Len(str) - 1) ELSE str

=============================================================================
